---- MODULE Spec2Model ----
(***************************************************************************)
(* Plan -> execute -> verify pipeline of the AI operations assistant.      *)
(* Strings are TLA+ strings (Len, SubSeq and \o act on them character by   *)
(* character); a Python value is a record tagged with its type; a Python   *)
(* dict is a function whose domain is the set of keys present; the outcome *)
(* of a call is either Ok(value) or Raise(text) for an exception whose     *)
(* str() is text.                                                          *)
(***************************************************************************)
EXTENDS Integers, Sequences, FiniteSets, TLC

VARIABLES
    pc,                 \* where the run is: plan, execute, verify, done, fault
    plan,               \* ExecutionPlan.steps as create_plan returned it
    step_results,       \* the local list of execute_plan
    execution_result,   \* what execute_plan returned, or None
    verification,       \* what verify_and_format returned, or None
    calls,              \* the external calls made so far, in order
    met,                \* what the external call of each executed step met
    fault               \* the exception that ended the run, or None

vars == <<pc, plan, step_results, execution_result, verification, calls, met, fault>>

(* Longest plan the planner returns. *)
MaxSteps == 2

------------------------------------------------------------------------------
(* Python values *)

None == [t |-> "none"]
Str(s) == [t |-> "str", v |-> s]
PyInt(n) == [t |-> "int", v |-> n]
PyBool(b) == [t |-> "bool", v |-> b]
PyList(items) == [t |-> "list", v |-> items]
PyDict(d) == [t |-> "dict", v |-> d]
EmptyDict == [k \in {} |-> None]

Ok(v) == [exc |-> FALSE, val |-> v]
Raise(text) == [exc |-> TRUE, text |-> text]

(* type(value).__name__ *)
type_name(value) ==
    CASE value.t = "none" -> "NoneType"
      [] OTHER -> value.t

(* dict.get(key, default) *)
get(d, key, default) == IF key \in DOMAIN d THEN d[key] ELSE default

(* d[key] = value *)
setitem(d, key, value) ==
    [k \in DOMAIN d \cup {key} |-> IF k = key THEN value ELSE d[k]]

(* bool(value) for the values a parameter can hold *)
truthy(x) ==
    CASE x.t = "str" -> Len(x.v) > 0
      [] x.t = "int" -> x.v # 0
      [] OTHER -> FALSE

(* str(value), as an f-string formats it *)
format(x) ==
    CASE x.t = "str" -> x.v
      [] x.t = "int" -> ToString(x.v)
      [] OTHER -> "None"

------------------------------------------------------------------------------
(* str methods *)

UpperCase == "ABCDEFGHIJKLMNOPQRSTUVWXYZ"
LowerCase == "abcdefghijklmnopqrstuvwxyz"

CharAt(s, i) == SubSeq(s, i, i)

(* the lower-case letter of each upper-case letter *)
lower_map ==
    [c \in {CharAt(UpperCase, i) : i \in 1..Len(UpperCase)} |->
        CharAt(LowerCase, CHOOSE i \in 1..Len(UpperCase) : CharAt(UpperCase, i) = c)]

lower_char(c) == IF c \in DOMAIN lower_map THEN lower_map[c] ELSE c

RECURSIVE lower(_)
lower(s) ==
    IF Len(s) = 0 THEN ""
    ELSE lower_char(CharAt(s, 1)) \o lower(SubSeq(s, 2, Len(s)))

(* sub in s *)
contains(sub, s) ==
    \E i \in 0..(Len(s) - Len(sub)) : SubSeq(s, i + 1, i + Len(sub)) = sub

(* s[:n] *)
prefix(s, n) == SubSeq(s, 1, IF Len(s) < n THEN Len(s) ELSE n)

(* the characters str.strip() removes, as far as the model's texts hold them *)
Whitespace == {" ", "\t", "\n", "\r"}

RECURSIVE strip(_)
strip(s) ==
    IF Len(s) = 0 THEN s
    ELSE IF CharAt(s, 1) \in Whitespace THEN strip(SubSeq(s, 2, Len(s)))
    ELSE IF CharAt(s, Len(s)) \in Whitespace THEN strip(SubSeq(s, 1, Len(s) - 1))
    ELSE s

------------------------------------------------------------------------------
(* The HTTP layer under the adapters: what requests.get followed by         *)
(* raise_for_status does.  Either a RequestException is raised or a JSON     *)
(* body comes back.                                                          *)

RequestFailure == [kind |-> "request_exception", text |-> "Read timed out."]
Response(body) == [kind |-> "response", body |-> body]

RepoItem ==
    [name |-> Str("fastapi"), full_name |-> Str("tiangolo/fastapi"),
     description |-> Str("web framework"), stargazers_count |-> PyInt(70),
     forks_count |-> PyInt(6), language |-> Str("Python"),
     html_url |-> Str("https://github.com/tiangolo/fastapi"),
     topics |-> PyList(<<Str("api")>>)]

(* The same item without its "name" key. *)
RepoItemNoName ==
    [k \in DOMAIN RepoItem \ {"name"} |-> RepoItem[k]]

GithubHttp ==
    { RequestFailure,
      Response([items |-> <<RepoItem>>]),
      Response([items |-> <<RepoItemNoName>>]) }

Article ==
    [title |-> Str("AI news"), description |-> Str("about AI"),
     source |-> PyDict([name |-> Str("Wired")]), author |-> Str("Ann"),
     url |-> Str("https://wired.com/a"), publishedAt |-> Str("2026-01-01"),
     content |-> Str("text")]

NewsHttp ==
    { RequestFailure,
      Response([status |-> "ok", articles |-> <<Article>>]) }

------------------------------------------------------------------------------
(* GitHubTool *)

RepoRequiredKeys ==
    <<"name", "full_name", "stargazers_count", "forks_count", "html_url">>

(* The dict literal built for one item: item["k"] raises KeyError('k') for *)
(* the first absent required key, item.get supplies a default.             *)
repo_record(item) ==
    LET missing == {i \in 1..Len(RepoRequiredKeys) : RepoRequiredKeys[i] \notin DOMAIN item}
    IN  IF missing # {}
        THEN Raise("'" \o RepoRequiredKeys[CHOOSE i \in missing : \A j \in missing : i <= j] \o "'")
        ELSE Ok([name |-> item["name"],
                 full_name |-> item["full_name"],
                 description |-> get(item, "description", Str("No description")),
                 stars |-> item["stargazers_count"],
                 forks |-> item["forks_count"],
                 language |-> get(item, "language", Str("Unknown")),
                 url |-> item["html_url"],
                 topics |-> get(item, "topics", PyList(<< >>))])

RECURSIVE repo_records(_)
repo_records(items) ==
    IF Len(items) = 0 THEN Ok(<< >>)
    ELSE LET first == repo_record(Head(items))
         IN  IF first.exc THEN first
             ELSE LET rest == repo_records(Tail(items))
                  IN  IF rest.exc THEN rest ELSE Ok(<<first.val>> \o rest.val)

(* search_repositories letting the RequestException through *)
search_repositoriesRaising(query, sort, limit, http) ==
    IF http.kind = "request_exception"
    THEN Raise(http.text)
    ELSE repo_records(get(http.body, "items", << >>))

search_repositories(query, sort, limit, http) ==
    IF http.kind = "request_exception"
    THEN Ok(<<[error |-> "GitHub API error: " \o http.text]>>)
    ELSE repo_records(get(http.body, "items", << >>))

WeekAgo == "2026-10-25"

trending_query(language) ==
    "language:" \o format(language) \o " created:>" \o WeekAgo

get_trending_repos(language, limit, http) ==
    search_repositories(Str(trending_query(language)), Str("stars"), limit, http)

------------------------------------------------------------------------------
(* NewsTool *)

(* article.get("source", {}).get("name", "Unknown"): the value under     *)
(* "source" answers .get only if it is a dict                            *)
source_name(article) ==
    LET source == get(article, "source", PyDict(EmptyDict))
    IN  IF source.t = "dict" THEN Ok(get(source.v, "name", Str("Unknown")))
        ELSE Raise("'" \o type_name(source) \o "' object has no attribute 'get'")

(* article.get("content", "")[:200]: the value under "content" can be    *)
(* sliced only if it is a text                                           *)
content_head(article) ==
    LET content == get(article, "content", Str(""))
    IN  IF content.t = "str" THEN Ok(Str(prefix(content.v, 200)))
        ELSE Raise("'" \o type_name(content) \o "' object is not subscriptable")

(* the dict literal of get_tech_news, its values computed in order *)
article_record(article) ==
    IF source_name(article).exc THEN source_name(article)
    ELSE IF content_head(article).exc THEN content_head(article)
    ELSE Ok([title |-> get(article, "title", Str("No title")),
             description |-> get(article, "description", Str("No description")),
             source |-> source_name(article).val,
             author |-> get(article, "author", Str("Unknown")),
             url |-> get(article, "url", Str("")),
             published_at |-> get(article, "publishedAt", Str("")),
             content |-> content_head(article).val])

(* the dict literal of get_top_headlines *)
headline_record(article) ==
    IF source_name(article).exc THEN source_name(article)
    ELSE Ok([title |-> get(article, "title", Str("No title")),
             description |-> get(article, "description", Str("No description")),
             source |-> source_name(article).val,
             url |-> get(article, "url", Str("")),
             published_at |-> get(article, "publishedAt", Str(""))])

(* the loop of get_tech_news over the articles: the first record that *)
(* raises ends it                                                     *)
RECURSIVE article_records(_)
article_records(articles) ==
    IF Len(articles) = 0 THEN Ok(<< >>)
    ELSE LET first == article_record(Head(articles))
         IN  IF first.exc THEN first
             ELSE LET rest == article_records(Tail(articles))
                  IN  IF rest.exc THEN rest ELSE Ok(<<first.val>> \o rest.val)

(* the loop of get_top_headlines over the articles *)
RECURSIVE headline_records(_)
headline_records(articles) ==
    IF Len(articles) = 0 THEN Ok(<< >>)
    ELSE LET first == headline_record(Head(articles))
         IN  IF first.exc THEN first
             ELSE LET rest == headline_records(Tail(articles))
                  IN  IF rest.exc THEN rest ELSE Ok(<<first.val>> \o rest.val)

(* data.get("status") == "ok" *)
status_ok(body) == "status" \in DOMAIN body /\ body["status"] = "ok"

get_tech_news(query, limit, http) ==
    IF http.kind = "request_exception"
    THEN Ok(<<[error |-> "NewsAPI request failed: " \o http.text]>>)
    ELSE IF ~status_ok(http.body)
    THEN Ok(<<[error |-> "NewsAPI error: " \o get(http.body, "message", "Unknown error")]>>)
    ELSE article_records(get(http.body, "articles", << >>))

get_top_headlines(category, country, limit, http) ==
    IF http.kind = "request_exception"
    THEN Ok(<<[error |-> "NewsAPI request failed: " \o http.text]>>)
    ELSE IF ~status_ok(http.body)
    THEN Ok(<<[error |-> "NewsAPI error: " \o get(http.body, "message", "Unknown error")]>>)
    ELSE headline_records(get(http.body, "articles", << >>))

------------------------------------------------------------------------------
(* GroqLLMClient.generate_text: the model answers with a text, or the call *)
(* raises.  The text of an exception is whatever str(e) gives, which is    *)
(* the empty string for an exception constructed without a message.        *)

LlmOutcomes ==
    { Ok("Here is a summary."),
      Raise("Connection error."),
      Raise("") }

generate_text(prompt, outcome) == outcome

------------------------------------------------------------------------------
(* PlanStep, and the plans the planner can return *)

PlanStep(n, a, t, p) ==
    [step_number |-> n, action |-> a, tool |-> t, parameters |-> p]

NoParams == EmptyDict
FullParams == [query |-> Str("rust"), sort |-> Str("forks"), limit |-> PyInt(3)]
PromptParams == [prompt |-> Str("Summarize the news")]
QueryParams(q) == [query |-> q]

(* tool, action, parameters of the steps a plan is made of.  Three       *)
(* catalogues of steps, each with its own specification below.           *)

(* one step per outcome of a dispatch: each target, an unknown tool, and *)
(* a news step whose query is not a string                               *)
CoreShapes ==
    { <<"GitHubTool", "Search repositories", NoParams>>,
      <<"NewsTool", "Fetch news", NoParams>>,
      <<"NewsTool", "Fetch news", QueryParams(PyInt(7))>>,
      <<"LLM", "Summarize", NoParams>>,
      <<"LLM", "Summarize", PromptParams>>,
      <<"Calculator", "Compute", NoParams>> }

(* tool identifiers: one token, two tokens in either order and case, none *)
DispatchShapes ==
    { <<tool, "Fetch", NoParams>> :
        tool \in {"GitHubTool", "NewsTool", "LLM", "news_github", "llm-news",
                  "GITHUB LLM", "Calculator", "Git Hub", ""} }

GithubShapes ==
    { <<"GitHubTool", "Get Trending repos", NoParams>>,
      <<"GitHubTool", "Search repositories", NoParams>>,
      <<"GitHubTool", "Search repositories", FullParams>>,
      <<"GitHubTool", "Fetch repos", FullParams>> }

NewsShapes ==
    { <<"NewsTool", "Top Headlines", NoParams>>,
      <<"NewsTool", "Fetch news", NoParams>>,
      <<"NewsTool", "Fetch news", QueryParams(Str(""))>>,
      <<"NewsTool", "Fetch news", QueryParams(Str(" \t"))>>,
      <<"NewsTool", "Fetch news", QueryParams(None)>>,
      <<"NewsTool", "Fetch news", QueryParams(Str("ai"))>>,
      <<"NewsTool", "Fetch news", QueryParams(Str(" ai "))>>,
      <<"NewsTool", "Fetch news", QueryParams(PyInt(7))>> }

(* adapter steps: each adapter method, with and without parameters *)
AdapterShapes == GithubShapes \cup NewsShapes

(* step_number as the model assigns it: in order, all equal, or reversed *)
Numberings(n) ==
    { [i \in 1..n |-> i], [i \in 1..n |-> 1], [i \in 1..n |-> n + 1 - i] }

(* the plans of at most MaxSteps steps over a catalogue *)
Plans(shapes) ==
    UNION { { [i \in 1..n |-> PlanStep(num[i], sh[i][2], sh[i][1], sh[i][3])] :
                sh \in [1..n -> shapes], num \in Numberings(n) } :
            n \in 0..MaxSteps }

------------------------------------------------------------------------------
(* A call to something outside the agents, as the run records it. *)

Call(target, args) == [target |-> target, args |-> args]

(* What a _call_* method hands back: its outcome and the external calls it made. *)
Done(out, log) == [out |-> out, log |-> log]

------------------------------------------------------------------------------
(* json.loads on the texts of the model: objects, arrays, strings without *)
(* escape sequences, integers, null, true and false.  A parsed value is a *)
(* Python value: dict and list are tagged like the scalars.               *)

Digits == "0123456789"

digit_value ==
    [c \in {CharAt(Digits, i) : i \in 1..Len(Digits)} |->
        (CHOOSE i \in 1..Len(Digits) : CharAt(Digits, i) = c) - 1]

(* the result of scanning one JSON value: the value and the index after it *)
Parsed(value, next) == [ok |-> TRUE, val |-> value, next |-> next]
NotParsed == [ok |-> FALSE]

(* s.startswith(lit, i - 1) *)
starts_at(s, i, lit) ==
    i + Len(lit) - 1 <= Len(s) /\ SubSeq(s, i, i + Len(lit) - 1) = lit

(* the first index from i on that holds no whitespace *)
RECURSIVE skip_ws(_, _)
skip_ws(s, i) ==
    IF i <= Len(s) /\ CharAt(s, i) \in Whitespace THEN skip_ws(s, i + 1) ELSE i

(* the index of the quote closing a string whose text starts at i, or 0: *)
(* a control character inside a string is an error                       *)
closing_quote(s, i) ==
    LET ends == {j \in i..Len(s) : CharAt(s, j) \in {"\"", "\n", "\t", "\r"}}
        first == CHOOSE j \in ends : \A k \in ends : j <= k
    IN  IF ends = {} THEN 0
        ELSE IF CharAt(s, first) = "\"" THEN first
        ELSE 0

(* the digits from i on, read as a number on top of acc *)
RECURSIVE scan_digits(_, _, _)
scan_digits(s, i, acc) ==
    IF i <= Len(s) /\ CharAt(s, i) \in DOMAIN digit_value
    THEN scan_digits(s, i + 1, 10 * acc + digit_value[CharAt(s, i)])
    ELSE Parsed(PyInt(acc), i)

scan_string(s, i) ==
    LET close == closing_quote(s, i + 1)
    IN  IF close = 0 THEN NotParsed
        ELSE Parsed(Str(SubSeq(s, i + 1, close - 1)), close + 1)

RECURSIVE scan_value(_, _)
RECURSIVE scan_elements(_, _, _)
RECURSIVE scan_members(_, _, _)

(* the JSON value that starts at index i *)
scan_value(s, i) ==
    IF i > Len(s) THEN NotParsed
    ELSE LET c == CharAt(s, i)
         IN  CASE c = "{" ->
                    LET j == skip_ws(s, i + 1)
                    IN  IF starts_at(s, j, "}") THEN Parsed(PyDict(EmptyDict), j + 1)
                        ELSE scan_members(s, j, EmptyDict)
               [] c = "[" ->
                    LET j == skip_ws(s, i + 1)
                    IN  IF starts_at(s, j, "]") THEN Parsed(PyList(<< >>), j + 1)
                        ELSE scan_elements(s, j, << >>)
               [] c = "\"" -> scan_string(s, i)
               [] c \in DOMAIN digit_value -> scan_digits(s, i, 0)
               [] starts_at(s, i, "null") -> Parsed(None, i + 4)
               [] starts_at(s, i, "true") -> Parsed(PyBool(TRUE), i + 4)
               [] starts_at(s, i, "false") -> Parsed(PyBool(FALSE), i + 5)
               [] OTHER -> NotParsed

(* the elements of an array from i on, after those in acc *)
scan_elements(s, i, acc) ==
    LET element == scan_value(s, i)
    IN  IF ~element.ok THEN NotParsed
        ELSE LET j == skip_ws(s, element.next)
                 items == Append(acc, element.val)
             IN  IF starts_at(s, j, "]") THEN Parsed(PyList(items), j + 1)
                 ELSE IF starts_at(s, j, ",") THEN scan_elements(s, skip_ws(s, j + 1), items)
                 ELSE NotParsed

(* the members of an object from i on, after those in acc *)
scan_members(s, i, acc) ==
    IF ~starts_at(s, i, "\"") THEN NotParsed
    ELSE LET key == scan_string(s, i)
         IN  IF ~key.ok THEN NotParsed
             ELSE LET colon == skip_ws(s, key.next)
                  IN  IF ~starts_at(s, colon, ":") THEN NotParsed
                      ELSE LET member == scan_value(s, skip_ws(s, colon + 1))
                           IN  IF ~member.ok THEN NotParsed
                               ELSE LET j == skip_ws(s, member.next)
                                        d == setitem(acc, key.val.v, member.val)
                                    IN  IF starts_at(s, j, "}") THEN Parsed(PyDict(d), j + 1)
                                        ELSE IF starts_at(s, j, ",")
                                        THEN scan_members(s, skip_ws(s, j + 1), d)
                                        ELSE NotParsed

(* str(e) of a json.JSONDecodeError, whatever the position it names *)
JSONDecodeErrorText == "Expecting value: line 1 column 1 (char 0)"

(* json.loads(text): one value with nothing but whitespace around it *)
json_loads(text) ==
    LET value == scan_value(text, skip_ws(text, 1))
    IN  IF value.ok /\ skip_ws(text, value.next) > Len(text)
        THEN Ok(value.val)
        ELSE [exc |-> TRUE, type |-> "JSONDecodeError", text |-> JSONDecodeErrorText]

------------------------------------------------------------------------------
(* ExecutionPlan built from the parsed value: pydantic validation.  The    *)
(* documents of the model hold each field with its declared type or not  *)
(* at all, so no coercion is involved.                                   *)

str_field(d, key) == key \in DOMAIN d /\ d[key].t = "str"

(* the element of "steps" validates as a PlanStep *)
plan_step_valid(item) ==
    /\ item.t = "dict"
    /\ "step_number" \in DOMAIN item.v /\ item.v["step_number"].t = "int"
    /\ str_field(item.v, "action")
    /\ str_field(item.v, "tool")
    /\ str_field(item.v, "reasoning")
    /\ "parameters" \in DOMAIN item.v => item.v["parameters"].t = "dict"

plan_step_of(item) ==
    PlanStep(item.v["step_number"].v, item.v["action"].v, item.v["tool"].v,
             IF "parameters" \in DOMAIN item.v THEN item.v["parameters"].v ELSE EmptyDict)

execution_plan_valid(d) ==
    /\ str_field(d, "task_description")
    /\ str_field(d, "expected_outcome")
    /\ "steps" \in DOMAIN d /\ d["steps"].t = "list"
    /\ \A i \in 1..Len(d["steps"].v) : plan_step_valid(d["steps"].v[i])

(* the first line of str(e) of a pydantic ValidationError *)
ValidationErrorText == "1 validation error for ExecutionPlan"

(* output_model called with the parsed value unpacked: a value that is    *)
(* not a mapping cannot be unpacked, which is a TypeError                 *)
ExecutionPlan(data) ==
    IF data.t # "dict"
    THEN [exc |-> TRUE, type |-> "TypeError",
          text |-> "agents.planner.ExecutionPlan() argument after ** must be a mapping, not "
                      \o type_name(data)]
    ELSE IF ~execution_plan_valid(data.v)
    THEN [exc |-> TRUE, type |-> "ValidationError", text |-> ValidationErrorText]
    ELSE Ok([task_description |-> data.v["task_description"].v,
             steps |-> [i \in 1..Len(data.v["steps"].v) |->
                           plan_step_of(data.v["steps"].v[i])],
             expected_outcome |-> data.v["expected_outcome"].v])

------------------------------------------------------------------------------
(* GroqLLMClient.generate_structured_output *)

(* s.startswith(lit), s.endswith(lit) *)
startswith(s, lit) == starts_at(s, 1, lit)
endswith(s, lit) == Len(lit) <= Len(s) /\ SubSeq(s, Len(s) - Len(lit) + 1, Len(s)) = lit

(* s[n:] and s[:-n] *)
drop_first(s, n) == IF n >= Len(s) THEN "" ELSE SubSeq(s, n + 1, Len(s))
drop_last(s, n) == IF n >= Len(s) THEN "" ELSE SubSeq(s, 1, Len(s) - n)

(* The backquote: a TLA+ string cannot hold that character, so one that  *)
(* occurs nowhere else in the texts of the model stands for it.          *)
Backquote == "^"

(* the three backquotes of a markdown code fence *)
Fence == Backquote \o Backquote \o Backquote

(* the response text as it is handed to json.loads *)
clean_response(content) ==
    LET stripped == strip(content)
        no_json_fence == IF startswith(stripped, Fence \o "json") THEN drop_first(stripped, 7)
                         ELSE stripped
        no_fence == IF startswith(no_json_fence, Fence) THEN drop_first(no_json_fence, 3)
                    ELSE no_json_fence
        no_closing == IF endswith(no_fence, Fence) THEN drop_last(no_fence, 3) ELSE no_fence
    IN  strip(no_closing)

(* the ValueError raised for a response that does not parse or validate *)
parse_failure(e, response_text) ==
    [exc |-> TRUE, type |-> "ValueError",
     text |-> "Failed to parse LLM response as ExecutionPlan: " \o e.text
                 \o "\nResponse: " \o prefix(response_text, 200)]

(* outcome is what self.llm.invoke meets: the content of the answer, or an *)
(* exception of the client                                                 *)
generate_structured_output(prompt, outcome) ==
    LET invoke == Call("invoke", [prompt |-> prompt])
    IN  IF outcome.exc THEN Done(outcome, <<invoke>>)
        ELSE LET response_text == clean_response(outcome.val)
                 log == <<invoke, Call("json.loads", [text |-> response_text])>>
                 data == json_loads(response_text)
                 result == IF data.exc THEN data ELSE ExecutionPlan(data.val)
             IN  IF result.exc /\ result.type \in {"JSONDecodeError", "ValidationError"}
                 THEN Done(parse_failure(result, response_text), log)
                 ELSE Done(result, log)

------------------------------------------------------------------------------
(* ExecutorAgent *)

(* {key: value} around the value of a call that returned *)
wrap(key, r) == IF r.exc THEN r ELSE Ok(setitem(EmptyDict, key, r.val))

call_github_tool(step, http) ==
    LET params == step.parameters
        action == lower(step.action)
    IN  IF contains("trending", action)
        THEN LET language == get(params, "language", Str("python"))
                 limit == get(params, "limit", PyInt(5))
             IN  Done(wrap("repos", get_trending_repos(language, limit, http)),
                      <<Call("get_trending_repos", [language |-> language, limit |-> limit])>>)
        ELSE IF contains("search", action)
        THEN LET query == get(params, "query", Str("language:python"))
                 sort == get(params, "sort", Str("stars"))
                 limit == get(params, "limit", PyInt(5))
             IN  Done(wrap("repos", search_repositories(query, sort, limit, http)),
                      <<Call("search_repositories",
                             [query |-> query, sort |-> sort, limit |-> limit])>>)
        ELSE Done(wrap("repos", search_repositories(Str("language:python"), Str("stars"),
                                                    PyInt(5), http)),
                  <<Call("search_repositories",
                         [query |-> Str("language:python"), sort |-> Str("stars"),
                          limit |-> PyInt(5)])>>)

(* _call_news_tool handing the supplied query to the adapter as it is *)
call_news_toolUnchecked(step, http) ==
    LET params == step.parameters
        action == lower(step.action)
    IN  IF contains("headline", action)
        THEN LET category == get(params, "category", Str("technology"))
                 country == get(params, "country", Str("us"))
                 limit == get(params, "limit", PyInt(5))
             IN  Done(wrap("articles", get_top_headlines(category, country, limit, http)),
                      <<Call("get_top_headlines",
                             [category |-> category, country |-> country, limit |-> limit])>>)
        ELSE LET query == get(params, "query", Str("technology"))
                 limit == get(params, "limit", PyInt(5))
             IN  Done(wrap("articles", get_tech_news(query, limit, http)),
                      <<Call("get_tech_news", [query |-> query, limit |-> limit])>>)

call_news_tool(step, http) ==
    LET params == step.parameters
        action == lower(step.action)
    IN  IF contains("headline", action)
        THEN LET category == get(params, "category", Str("technology"))
                 country == get(params, "country", Str("us"))
                 limit == get(params, "limit", PyInt(5))
             IN  Done(wrap("articles", get_top_headlines(category, country, limit, http)),
                      <<Call("get_top_headlines",
                             [category |-> category, country |-> country, limit |-> limit])>>)
        ELSE LET supplied == get(params, "query", Str("technology"))
                 limit == get(params, "limit", PyInt(5))
             IN  IF truthy(supplied) /\ supplied.t # "str"
                 THEN Done(Raise("'" \o supplied.t \o "' object has no attribute 'strip'"),
                           << >>)
                 ELSE LET query == IF ~truthy(supplied) \/ strip(supplied.v) = ""
                                   THEN Str("technology")
                                   ELSE supplied
                      IN  Done(wrap("articles", get_tech_news(query, limit, http)),
                               <<Call("get_tech_news", [query |-> query, limit |-> limit])>>)

call_llm(step, outcome) ==
    LET params == step.parameters
        prompt == get(params, "prompt", Str("Summarize the data"))
    IN  Done(wrap("summary", generate_text(prompt, outcome)),
             <<Call("generate_text", [prompt |-> prompt])>>)

(* StepResult with the tool identifier normalised as the dispatch sees it *)
StepResultLowered(step, status, data, error_message) ==
    [step_number |-> step.step_number, action |-> step.action,
     tool_used |-> lower(step.tool),
     status |-> status, data |-> data, error_message |-> error_message]

StepResult(step, status, data, error_message) ==
    [step_number |-> step.step_number, action |-> step.action, tool_used |-> step.tool,
     status |-> status, data |-> data, error_message |-> error_message]

(* route with the news token tested before the repository token *)
routeNewsFirst(tool) ==
    LET tool_name == lower(tool)
    IN  IF contains("news", tool_name) THEN "news"
        ELSE IF contains("github", tool_name) THEN "github"
        ELSE IF contains("llm", tool_name) THEN "llm"
        ELSE "unknown"

(* route sending an unrecognised tool to the language model *)
routeDefaultLlm(tool) ==
    LET tool_name == lower(tool)
    IN  IF contains("github", tool_name) THEN "github"
        ELSE IF contains("news", tool_name) THEN "news"
        ELSE "llm"

(* The target a tool identifier is dispatched to. *)
route(tool) ==
    LET tool_name == lower(tool)
    IN  IF contains("github", tool_name) THEN "github"
        ELSE IF contains("news", tool_name) THEN "news"
        ELSE IF contains("llm", tool_name) THEN "llm"
        ELSE "unknown"

(* _execute_step reporting an error for a payload that holds an error record *)
execute_stepErrorAware(step, env) ==
    LET target == route(step.tool)
    IN  IF target = "unknown"
        THEN Done(StepResult(step, "error", EmptyDict, "Unknown tool: " \o step.tool), << >>)
        ELSE LET r == CASE target = "github" -> call_github_tool(step, env)
                        [] target = "news" -> call_news_tool(step, env)
                        [] target = "llm" -> call_llm(step, env)
                 tagged == /\ ~r.out.exc
                           /\ target \in {"github", "news"}
                           /\ \E key \in DOMAIN r.out.val :
                                 \E n \in 1..Len(r.out.val[key]) :
                                     "error" \in DOMAIN r.out.val[key][n]
             IN  IF r.out.exc
                 THEN Done(StepResult(step, "error", EmptyDict, r.out.text), r.log)
                 ELSE IF tagged
                 THEN Done(StepResult(step, "error", EmptyDict, "adapter error"), r.log)
                 ELSE Done(StepResult(step, "success", r.out.val, ""), r.log)

(* _execute_step: the StepResult of one step and the external calls made for it; *)
(* env is what the one external call of the step meets.                          *)
execute_step(step, env) ==
    LET target == route(step.tool)
    IN  IF target = "unknown"
        THEN Done(StepResult(step, "error", EmptyDict, "Unknown tool: " \o step.tool), << >>)
        ELSE LET r == CASE target = "github" -> call_github_tool(step, env)
                        [] target = "news" -> call_news_tool(step, env)
                        [] target = "llm" -> call_llm(step, env)
             IN  IF r.out.exc
                 THEN Done(StepResult(step, "error", EmptyDict, r.out.text), r.log)
                 ELSE Done(StepResult(step, "success", r.out.val, ""), r.log)

(* What the external call of a step can meet. *)
Environments(step) ==
    CASE route(step.tool) = "github" -> GithubHttp
      [] route(step.tool) = "news" -> NewsHttp
      [] route(step.tool) = "llm" -> LlmOutcomes
      [] OTHER -> {None}

RECURSIVE success_count(_)
success_count(results) ==
    IF Len(results) = 0 THEN 0
    ELSE (IF Head(results).status = "success" THEN 1 ELSE 0) + success_count(Tail(results))

(* overall_status with the partial_failure threshold off by one *)
overall_statusOffByOne(results) ==
    IF success_count(results) = Len(results) THEN "success"
    ELSE IF success_count(results) > 1 THEN "partial_failure"
    ELSE "failure"

(* overall_status reporting a failure for an empty list of results *)
overall_statusEmptyFails(results) ==
    IF Len(results) = 0 THEN "failure"
    ELSE IF success_count(results) = Len(results) THEN "success"
    ELSE IF success_count(results) > 0 THEN "partial_failure"
    ELSE "failure"

overall_status(results) ==
    IF success_count(results) = Len(results) THEN "success"
    ELSE IF success_count(results) > 0 THEN "partial_failure"
    ELSE "failure"

ExecutionResult(results) ==
    [step_results |-> results, overall_status |-> overall_status(results)]

------------------------------------------------------------------------------
(* VerifierAgent *)

RECURSIVE gcd(_, _)
gcd(a, b) == IF b = 0 THEN a ELSE gcd(b, a % b)

(* a / b on small non-negative integers: the quotient in lowest terms, or *)
(* ZeroDivisionError                                                      *)
true_divide(a, b) ==
    IF b = 0 THEN Raise("division by zero")
    ELSE Ok([num |-> a \div gcd(a, b), den |-> b \div gcd(a, b)])

(* f"step_{step_result.step_number}" *)
data_key(r) == "step_" \o ToString(r.step_number)

(* f"Step {step_result.step_number} failed: {step_result.error_message}" *)
issue_text(r) == "Step " \o ToString(r.step_number) \o " failed: " \o r.error_message

(* collected_data after the loop over results *)
RECURSIVE collected_data(_)
collected_data(results) ==
    IF Len(results) = 0 THEN EmptyDict
    ELSE LET before == collected_data(SubSeq(results, 1, Len(results) - 1))
             r == results[Len(results)]
         IN  IF r.status = "success" THEN setitem(before, data_key(r), r.data) ELSE before

(* issues with the newest failure first *)
RECURSIVE issues_ofNewestFirst(_)
issues_ofNewestFirst(results) ==
    IF Len(results) = 0 THEN << >>
    ELSE LET after == issues_ofNewestFirst(Tail(results))
             r == Head(results)
         IN  IF r.status = "success" THEN after ELSE Append(after, issue_text(r))

(* issues after the loop over results *)
RECURSIVE issues_of(_)
issues_of(results) ==
    IF Len(results) = 0 THEN << >>
    ELSE LET before == issues_of(SubSeq(results, 1, Len(results) - 1))
             r == results[Len(results)]
         IN  IF r.status = "success" THEN before ELSE Append(before, issue_text(r))

(* is_complete that also accepts a partial failure *)
is_complete_ofLenient(result) == result.overall_status # "failure"

is_complete_of(result) == result.overall_status = "success"

(* confidence computed as the share of failed steps *)
confidence_ofFailures(results) ==
    true_divide(Len(results) - success_count(results), Len(results))

confidence_of(results) == true_divide(success_count(results), Len(results))

generate_summary(task, data, issues, outcome) ==
    Done(generate_text(Str("summary prompt"), outcome),
         <<Call("generate_text", [task |-> task, data |-> data, issues |-> issues])>>)

(* verify_and_format asking for the summary before it computes the *)
(* confidence                                                      *)
verify_and_formatSummaryFirst(original_task, result, outcome) ==
    LET is_complete == is_complete_of(result)
        data == collected_data(result.step_results)
        issues == issues_of(result.step_results)
        summary == generate_summary(original_task, data, issues, outcome)
        confidence_score == confidence_of(result.step_results)
    IN  IF summary.out.exc THEN summary
        ELSE IF confidence_score.exc THEN Done(confidence_score, summary.log)
        ELSE Done(Ok([original_task |-> original_task,
                      is_complete |-> is_complete,
                      summary |-> summary.out.val,
                      data |-> data,
                      issues |-> issues,
                      confidence_score |-> confidence_score.val]),
                  summary.log)

verify_and_format(original_task, result, outcome) ==
    LET is_complete == is_complete_of(result)
        data == collected_data(result.step_results)
        issues == issues_of(result.step_results)
        confidence_score == confidence_of(result.step_results)
    IN  IF confidence_score.exc THEN Done(confidence_score, << >>)
        ELSE LET summary == generate_summary(original_task, data, issues, outcome)
             IN  IF summary.out.exc THEN summary
                 ELSE Done(Ok([original_task |-> original_task,
                               is_complete |-> is_complete,
                               summary |-> summary.out.val,
                               data |-> data,
                               issues |-> issues,
                               confidence_score |-> confidence_score.val]),
                           summary.log)

------------------------------------------------------------------------------
(* The run: example_usage.main drives planner -> executor -> verifier. *)

user_task == "Get latest tech news and summarize it"

(* the external calls of one stage, tagged with the stage and the position *)
(* of the plan step they were made for                                     *)
Logged(stage, position, log) ==
    [i \in 1..Len(log) |->
        [stage |-> stage, position |-> position,
         target |-> log[i].target, args |-> log[i].args]]

Init ==
    /\ pc = "plan"
    /\ plan = << >>
    /\ step_results = << >>
    /\ execution_result = None
    /\ verification = None
    /\ calls = << >>
    /\ met = << >>
    /\ fault = None

(* planner.create_plan returns a plan over the given catalogue *)
CreatePlanFrom(shapes) ==
    /\ pc = "plan"
    /\ \E p \in Plans(shapes) : plan' = p
    /\ pc' = "execute"
    /\ calls' = calls \o Logged("planner", 0, <<Call("generate_structured_output",
                                                      [task |-> user_task])>>)
    /\ UNCHANGED <<step_results, execution_result, verification, met, fault>>

CreatePlan == CreatePlanFrom(CoreShapes)

CreatePlanDispatch == CreatePlanFrom(DispatchShapes)

CreatePlanAdapters == CreatePlanFrom(AdapterShapes)

(* planner.create_plan raises: the model's answer does not parse as a plan *)
CreatePlanFails ==
    /\ pc = "plan"
    /\ pc' = "fault"
    /\ fault' = Str("Failed to parse LLM response as ExecutionPlan")
    /\ calls' = calls \o Logged("planner", 0, <<Call("generate_structured_output",
                                                      [task |-> user_task])>>)
    /\ UNCHANGED <<plan, step_results, execution_result, verification, met>>

(* the loop of execute_plan without the per-step boundary: an error ends the run *)
ExecuteStepAborting ==
    /\ pc = "execute"
    /\ Len(step_results) < Len(plan)
    /\ LET position == Len(step_results) + 1
           step == plan[position]
       IN  \E env \in Environments(step) :
              LET r == execute_step(step, env)
              IN  /\ calls' = calls \o Logged("executor", position, r.log)
                  /\ met' = Append(met, env)
                  /\ IF r.out.status = "error"
                     THEN /\ pc' = "fault"
                          /\ fault' = Str(r.out.error_message)
                          /\ step_results' = step_results
                     ELSE /\ pc' = pc
                          /\ fault' = fault
                          /\ step_results' = Append(step_results, r.out)
    /\ UNCHANGED <<plan, execution_result, verification>>

(* the loop of execute_plan walking the list from its last step *)
ExecuteStepLastFirst ==
    /\ pc = "execute"
    /\ Len(step_results) < Len(plan)
    /\ LET position == Len(plan) - Len(step_results)
           step == plan[position]
       IN  \E env \in Environments(step) :
              LET r == execute_step(step, env)
              IN  /\ step_results' = Append(step_results, r.out)
                  /\ calls' = calls \o Logged("executor", position, r.log)
                  /\ met' = Append(met, env)
    /\ UNCHANGED <<pc, plan, execution_result, verification, fault>>

(* one iteration of the loop of execute_plan *)
ExecuteStep ==
    /\ pc = "execute"
    /\ Len(step_results) < Len(plan)
    /\ LET position == Len(step_results) + 1
           step == plan[position]
       IN  \E env \in Environments(step) :
              LET r == execute_step(step, env)
              IN  /\ step_results' = Append(step_results, r.out)
                  /\ calls' = calls \o Logged("executor", position, r.log)
                  /\ met' = Append(met, env)
    /\ UNCHANGED <<pc, plan, execution_result, verification, fault>>

(* the loop is over: execute_plan derives overall_status and returns *)
ReturnExecutionResult ==
    /\ pc = "execute"
    /\ Len(step_results) = Len(plan)
    /\ execution_result' = ExecutionResult(step_results)
    /\ pc' = "verify"
    /\ UNCHANGED <<plan, step_results, verification, calls, met, fault>>

(* verify_and_format handing back a result without summary when the *)
(* summary call raises                                              *)
VerifyWithoutSummary ==
    /\ pc = "verify"
    /\ \E outcome \in LlmOutcomes :
          LET r == verify_and_format(user_task, execution_result, outcome)
          IN  /\ calls' = calls \o Logged("verifier", 0, r.log)
              /\ IF r.out.exc /\ r.log = << >>
                 THEN /\ pc' = "fault"
                      /\ fault' = Str(r.out.text)
                      /\ verification' = verification
                 ELSE /\ pc' = "done"
                      /\ fault' = fault
                      /\ verification' =
                            IF r.out.exc
                            THEN [original_task |-> user_task,
                                  is_complete |-> is_complete_of(execution_result),
                                  summary |-> "",
                                  data |-> collected_data(execution_result.step_results),
                                  issues |-> issues_of(execution_result.step_results),
                                  confidence_score |->
                                      confidence_of(execution_result.step_results).val]
                            ELSE r.out.val
    /\ UNCHANGED <<plan, step_results, execution_result, met>>

(* verifier.verify_and_format *)
Verify ==
    /\ pc = "verify"
    /\ \E outcome \in LlmOutcomes :
          LET r == verify_and_format(user_task, execution_result, outcome)
          IN  /\ calls' = calls \o Logged("verifier", 0, r.log)
              /\ IF r.out.exc
                 THEN /\ pc' = "fault"
                      /\ fault' = Str(r.out.text)
                      /\ verification' = verification
                 ELSE /\ pc' = "done"
                      /\ verification' = r.out.val
                      /\ fault' = fault
    /\ UNCHANGED <<plan, step_results, execution_result, met>>

Next ==
    \/ CreatePlan
    \/ CreatePlanFails
    \/ ExecuteStep
    \/ ReturnExecutionResult
    \/ Verify

(* the run over plans of CoreShapes *)
Spec == Init /\ [][Next]_vars

NextDispatch ==
    \/ CreatePlanDispatch
    \/ CreatePlanFails
    \/ ExecuteStep
    \/ ReturnExecutionResult
    \/ Verify

(* the run over plans of DispatchShapes *)
SpecDispatch == Init /\ [][NextDispatch]_vars

NextAdapters ==
    \/ CreatePlanAdapters
    \/ CreatePlanFails
    \/ ExecuteStep
    \/ ReturnExecutionResult
    \/ Verify

(* the run over plans of AdapterShapes *)
SpecAdapters == Init /\ [][NextAdapters]_vars

------------------------------------------------------------------------------
(* The planner's call of generate_structured_output, over what the model   *)
(* can answer: a JSON document or another text, bare or inside a markdown  *)
(* code fence, with or without whitespace around it.                       *)

(* a plan of one step and a plan of no step *)
PlanDoc ==
    "{\"task_description\": \"tech news\", \"steps\": [{\"step_number\": 1, "
        \o "\"action\": \"Fetch news\", \"tool\": \"NewsTool\", "
        \o "\"parameters\": {\"query\": \"ai\", \"limit\": 3}, "
        \o "\"reasoning\": \"the task asks for news\"}], \"expected_outcome\": \"a summary\"}"

EmptyPlanDoc ==
    "{\"task_description\": \"tech news\", \"steps\": [], \"expected_outcome\": \"a summary\"}"

ValidDocs == {PlanDoc, EmptyPlanDoc}

Filler == "0123456789012345678901234567890123456789012345678901234567890123456789"

(* JSON objects that are not an ExecutionPlan; the second is longer than *)
(* 200 characters                                                        *)
WrongShapeDocs ==
    { "{\"task_description\": \"tech news\", \"steps\": []}",
      "{\"steps\": [{\"step_number\": 1}], \"note\": \""
          \o Filler \o Filler \o Filler \o "\"}" }

(* JSON documents whose top-level value is not an object *)
NonObjectDocs == {"[]", "\"plan\"", "7", "null"}

(* texts that are not JSON *)
MalformedDocs ==
    { "", "Here is the plan", "{\"steps\": [}", EmptyPlanDoc \o "\nDone." }

JsonDocs == ValidDocs \cup WrongShapeDocs \cup NonObjectDocs

Docs == JsonDocs \cup MalformedDocs

(* the language tags of an opening fence *)
Tags == {"", "json", "JSON", "python"}

Margins == {"", " \n"}

(* the document inside a fence with the given tag, whitespace around it *)
Fenced(lead, tag, doc, trail) ==
    lead \o Fence \o tag \o "\n" \o doc \o "\n" \o Fence \o trail

ModelAnswers ==
    { lead \o doc \o trail : lead \in Margins, doc \in Docs, trail \in Margins }
    \cup { Fenced(lead, tag, doc, trail) :
             lead \in Margins, tag \in Tags, doc \in Docs, trail \in Margins }
    \cup { Fence \o "json" \o doc \o Fence : doc \in Docs }
    \cup { Fence \o "json\n" \o doc : doc \in Docs }

ClientFailure == [exc |-> TRUE, type |-> "APIConnectionError", text |-> "Connection error."]

(* what self.llm.invoke can meet *)
ModelResponses == {Ok(answer) : answer \in ModelAnswers} \cup {ClientFailure}

(* planner.create_plan on the text of the model's answer *)
CreatePlanStructured ==
    /\ pc = "plan"
    /\ \E outcome \in ModelResponses :
          LET r == generate_structured_output(user_task, outcome)
          IN  /\ met' = <<outcome>>
              /\ calls' = calls \o Logged("planner", 0, r.log)
              /\ IF r.out.exc
                 THEN /\ pc' = "fault"
                      /\ fault' = r.out
                      /\ plan' = plan
                 ELSE /\ pc' = "execute"
                      /\ plan' = r.out.val.steps
                      /\ fault' = fault
    /\ UNCHANGED <<step_results, execution_result, verification>>

NextStructured == CreatePlanStructured

(* the planner stage alone, over the answers of the model as texts *)
SpecStructured == Init /\ [][NextStructured]_vars

------------------------------------------------------------------------------
(* The adapters over sparse answers of the APIs: result objects with     *)
(* optional fields left out or null.                                     *)

RepoOptionalKeys == {"description", "language", "topics"}

(* an item holding the required keys only *)
RepoItemBare ==
    [k \in DOMAIN RepoItem \ RepoOptionalKeys |-> RepoItem[k]]

(* an item whose description and language are null *)
RepoItemNulls ==
    [k \in DOMAIN RepoItem |->
        IF k \in {"description", "language"} THEN None ELSE RepoItem[k]]

GithubBodies ==
    GithubHttp \cup { Response([items |-> <<RepoItemBare>>]),
                      Response([items |-> <<RepoItemNulls>>]) }

(* an article holding its title only *)
ArticleBare == [title |-> Article["title"]]

ArticleNullContent ==
    [k \in DOMAIN Article |-> IF k = "content" THEN None ELSE Article[k]]

ArticleNullSource ==
    [k \in DOMAIN Article |-> IF k = "source" THEN None ELSE Article[k]]

NewsBodies ==
    NewsHttp \cup { Response([status |-> "ok", articles |-> <<ArticleBare>>]),
                    Response([status |-> "ok", articles |-> <<ArticleNullContent>>]),
                    Response([status |-> "ok", articles |-> <<ArticleNullSource>>]),
                    Response([status |-> "error", message |-> "rate limited"]) }

(* one step per adapter method that builds records *)
RecordShapes ==
    { <<"GitHubTool", "Search repositories", NoParams>>,
      <<"NewsTool", "Fetch news", NoParams>>,
      <<"NewsTool", "Top Headlines", NoParams>> }

(* What the external call of a step can meet, sparse answers included. *)
SparseEnvironments(step) ==
    CASE route(step.tool) = "github" -> GithubBodies
      [] route(step.tool) = "news" -> NewsBodies
      [] OTHER -> Environments(step)

CreatePlanRecords == CreatePlanFrom(RecordShapes)

(* one iteration of the loop of execute_plan, over SparseEnvironments *)
ExecuteStepSparse ==
    /\ pc = "execute"
    /\ Len(step_results) < Len(plan)
    /\ LET position == Len(step_results) + 1
           step == plan[position]
       IN  \E env \in SparseEnvironments(step) :
              LET r == execute_step(step, env)
              IN  /\ step_results' = Append(step_results, r.out)
                  /\ calls' = calls \o Logged("executor", position, r.log)
                  /\ met' = Append(met, env)
    /\ UNCHANGED <<pc, plan, execution_result, verification, fault>>

NextRecords ==
    \/ CreatePlanRecords
    \/ CreatePlanFails
    \/ ExecuteStepSparse
    \/ ReturnExecutionResult
    \/ Verify

(* the run over plans of RecordShapes and sparse answers of the APIs *)
SpecRecords == Init /\ [][NextRecords]_vars

------------------------------------------------------------------------------
(* Properties *)

(* execute_plan has returned *)
Returned == "overall_status" \in DOMAIN execution_result

(* the run is past the loop of execute_plan *)
LoopOver == pc \in {"verify", "done"} \/ (pc = "fault" /\ Returned)

Successes(results) == {i \in 1..Len(results) : results[i].status = "success"}

(* the external calls made for the step at position i, and their targets *)
CallsAt(i) == {k \in 1..Len(calls) : calls[k].stage = "executor" /\ calls[k].position = i}
TargetsAt(i) == {calls[k].target : k \in CallsAt(i)}

GithubTargets == {"search_repositories", "get_trending_repos"}
NewsTargets == {"get_tech_news", "get_top_headlines"}

(* the tool identifiers of the plans, by the tokens they hold *)
HoldGithub == {"GitHubTool", "news_github", "GITHUB LLM"}
HoldNewsNotGithub == {"NewsTool", "llm-news"}
HoldLlmOnly == {"LLM"}
HoldNone == {"Calculator", "Git Hub", ""}

AttributeErrorText == "'int' object has no attribute 'strip'"

(* the step at position i raises in the executor before any adapter call *)
RaisesBeforeCall(i) ==
    /\ plan[i].tool \in HoldNewsNotGithub
    /\ plan[i].action = "Fetch news"
    /\ plan[i].parameters = QueryParams(PyInt(7))

(* C1: for a plan of N >= 1 steps execute_plan returns exactly N StepResults, *)
(* the i-th carrying the step_number, action and tool (original casing) of    *)
(* the i-th plan step; while the loop runs the results are a prefix of that.  *)
C1_OneResultPerStep ==
    /\ Len(step_results) <= Len(plan)
    /\ \A i \in 1..Len(step_results) :
          /\ step_results[i].step_number = plan[i].step_number
          /\ step_results[i].action = plan[i].action
          /\ step_results[i].tool_used = plan[i].tool
    /\ (Returned /\ Len(plan) >= 1) =>
          /\ Len(execution_result.step_results) = Len(plan)
          /\ \A i \in 1..Len(plan) :
                /\ execution_result.step_results[i].step_number = plan[i].step_number
                /\ execution_result.step_results[i].action = plan[i].action
                /\ execution_result.step_results[i].tool_used = plan[i].tool

(* a returned result of two steps, out-of-order indices, mixed-case tool, *)
(* first step failed and second succeeded                                 *)
C1_Witness ==
    /\ Returned
    /\ Len(plan) = 2
    /\ plan[1].tool = "GitHubTool" /\ plan[1].step_number = 2
    /\ plan[2].step_number = 1
    /\ execution_result.step_results[1].status = "error"
    /\ execution_result.step_results[2].status = "success"

(* C2: for N >= 1 steps overall_status is "success" iff all N StepResults  *)
(* succeeded, "failure" iff none did, "partial_failure" iff at least one   *)
(* but fewer than N did.                                                   *)
C2_OverallStatusByCount ==
    (Returned /\ Len(plan) >= 1) =>
        LET rs == execution_result.step_results
            k == Cardinality(Successes(rs))
            status == execution_result.overall_status
        IN  /\ status \in {"success", "partial_failure", "failure"}
            /\ (status = "success") <=> (k = Len(rs))
            /\ (status = "failure") <=> (k = 0)
            /\ (status = "partial_failure") <=> (0 < k /\ k < Len(rs))

(* a returned result with one success out of two *)
C2_Witness ==
    /\ Returned
    /\ Len(execution_result.step_results) = 2
    /\ Cardinality(Successes(execution_result.step_results)) = 1
    /\ execution_result.overall_status = "partial_failure"

(* C3: a step whose dispatch ends in an error (unknown tool, an exception   *)
(* raised while building the call, in the adapter or in the language-model *)
(* client) gets a StepResult with status "error" and the exception text as *)
(* error_message; the exception does not leave execute_plan, and every     *)
(* later step is still dispatched and gets its own StepResult.             *)
C3_StepFailureDoesNotAbort ==
    /\ \A i \in 1..Len(step_results) :
          LET step == plan[i]
              r == step_results[i]
          IN  /\ step.tool \in HoldNone =>
                    r.status = "error" /\ r.error_message = "Unknown tool: " \o step.tool
              /\ (step.tool \in HoldLlmOnly /\ met[i].exc) =>
                    r.status = "error" /\ r.error_message = met[i].text
              /\ (step.tool \in HoldGithub /\ met[i] = Response([items |-> <<RepoItemNoName>>])) =>
                    r.status = "error" /\ r.error_message = "'name'"
              /\ RaisesBeforeCall(i) =>
                    r.status = "error" /\ r.error_message = AttributeErrorText
    /\ (pc = "execute" /\ Len(step_results) < Len(plan)) =>
          \E env \in Environments(plan[Len(step_results) + 1]) :
              execute_step(plan[Len(step_results) + 1], env).out.status \in {"success", "error"}
    /\ pc = "fault" => (Returned \/ plan = << >>)
    /\ LoopOver =>
          /\ Len(step_results) = Len(plan)
          /\ \A i \in 1..Len(plan) :
                (plan[i].tool \in HoldGithub \cup HoldLlmOnly) => Cardinality(CallsAt(i)) = 1

(* the first step raised in the language-model client, the second step was *)
(* dispatched to the repository adapter all the same                       *)
C3_Witness ==
    /\ LoopOver
    /\ Len(plan) = 2
    /\ plan[1].tool = "LLM" /\ met[1] = Raise("Connection error.")
    /\ step_results[1].status = "error"
    /\ plan[2].tool = "GitHubTool"
    /\ TargetsAt(2) = {"search_repositories"}
    /\ step_results[2].status = "success"

(* C4: every StepResult has status "error" iff its error_message is        *)
(* non-empty iff its data is empty.                                        *)
C4_StatusMessagePayload ==
    \A i \in 1..Len(step_results) :
        LET r == step_results[i]
        IN  /\ (r.status = "error") <=> (r.error_message # "")
            /\ (r.status = "error") <=> (DOMAIN r.data = {})

(* C5: dispatch goes by the lower-cased tool identifier with fixed         *)
(* priority: one holding "github" goes to the repository adapter even if   *)
(* it also holds "news" or "llm"; otherwise one holding "news" goes to the *)
(* news adapter even if it also holds "llm"; otherwise one holding "llm"   *)
(* goes to the language model; the same identifier always goes to the same *)
(* target.                                                                 *)
C5_DispatchPriority ==
    /\ \A i \in 1..Len(step_results) :
          LET tool == plan[i].tool
          IN  /\ tool \in HoldGithub =>
                    Cardinality(CallsAt(i)) = 1 /\ TargetsAt(i) \subseteq GithubTargets
              /\ tool \in HoldNewsNotGithub =>
                    IF RaisesBeforeCall(i)
                    THEN CallsAt(i) = {} /\ step_results[i].error_message = AttributeErrorText
                    ELSE Cardinality(CallsAt(i)) = 1 /\ TargetsAt(i) \subseteq NewsTargets
              /\ tool \in HoldLlmOnly =>
                    Cardinality(CallsAt(i)) = 1 /\ TargetsAt(i) = {"generate_text"}
    /\ \A i, j \in 1..Len(step_results) :
          (plan[i].tool = plan[j].tool /\ CallsAt(i) # {} /\ CallsAt(j) # {}) =>
              \E family \in {GithubTargets, NewsTargets, {"generate_text"}} :
                  TargetsAt(i) \cup TargetsAt(j) \subseteq family

(* "news_github" went to the repository adapter and "llm-news" to the news *)
(* adapter                                                                 *)
C5_Witness ==
    /\ Len(step_results) = 2
    /\ plan[1].tool = "news_github" /\ TargetsAt(1) = {"search_repositories"}
    /\ plan[2].tool = "llm-news" /\ TargetsAt(2) = {"get_tech_news"}

(* C6: a step whose tool identifier holds none of the tokens gets a        *)
(* StepResult with status "error", empty data and an error message naming  *)
(* the tool; no adapter and no language-model call is made for it; later   *)
(* steps of the plan still run.                                            *)
C6_UnknownTool ==
    /\ \A i \in 1..Len(step_results) :
          plan[i].tool \in HoldNone =>
              /\ step_results[i].status = "error"
              /\ DOMAIN step_results[i].data = {}
              /\ step_results[i].error_message = "Unknown tool: " \o plan[i].tool
              /\ contains(plan[i].tool, step_results[i].error_message)
              /\ CallsAt(i) = {}
    /\ LoopOver =>
          \A i, j \in 1..Len(plan) :
              (i < j /\ plan[i].tool \in HoldNone) =>
                  /\ j <= Len(step_results)
                  /\ plan[j].tool \in HoldGithub \cup HoldLlmOnly => Cardinality(CallsAt(j)) = 1

(* an unknown tool first, then a language-model step that was called *)
C6_Witness ==
    /\ LoopOver
    /\ Len(plan) = 2
    /\ plan[1].tool = "Calculator" /\ step_results[1].status = "error" /\ CallsAt(1) = {}
    /\ plan[2].tool = "LLM" /\ TargetsAt(2) = {"generate_text"}
    /\ step_results[2].status = "success"

AdapterTools == HoldGithub \cup HoldNewsNotGithub

(* the HTTP call of every adapter-routed step so far failed at transport level *)
TransportAlwaysFails ==
    \A i \in 1..Len(met) : plan[i].tool \in AdapterTools => met[i] = RequestFailure

(* status "success", no error message, and a payload whose list is one       *)
(* record with an "error" field                                              *)
ErrorTagged(r) ==
    /\ r.status = "success"
    /\ r.error_message = ""
    /\ \E key \in DOMAIN r.data :
          /\ Len(r.data[key]) = 1
          /\ DOMAIN r.data[key][1] = {"error"}

C8_ConfidenceIsSuccessRate ==
    (pc = "done" /\ Len(execution_result.step_results) >= 1) =>
        LET rs == execution_result.step_results
            k == Cardinality(Successes(rs))
            c == verification.confidence_score
        IN  /\ c.den > 0
            /\ c.num * Len(rs) = k * c.den
            /\ 0 <= c.num /\ c.num <= c.den
            /\ (c.num = 0) <=> (execution_result.overall_status = "failure")
            /\ (c.num = c.den) <=> (execution_result.overall_status = "success")

(* a verified run with one success out of two: confidence 1/2 *)
C8_Witness ==
    /\ pc = "done"
    /\ Len(execution_result.step_results) = 2
    /\ Cardinality(Successes(execution_result.step_results)) = 1
    /\ verification.confidence_score = [num |-> 1, den |-> 2]

(* C9: is_complete is true iff overall_status is exactly "success";        *)
(* "partial_failure" and "failure" yield is_complete = false.              *)
C9_CompleteIffSuccess ==
    pc = "done" =>
        /\ verification.is_complete <=> (execution_result.overall_status = "success")
        /\ execution_result.overall_status \in {"partial_failure", "failure"} =>
              ~verification.is_complete
        /\ verification.is_complete <=>
              (Successes(execution_result.step_results) =
                  1..Len(execution_result.step_results))

(* a verified partial failure, reported as not complete *)
C9_Witness ==
    /\ pc = "done"
    /\ execution_result.overall_status = "partial_failure"
    /\ ~verification.is_complete

(* C10: whatever step_number values the plan carries, data holds exactly   *)
(* one entry per successful StepResult, that step's payload under its      *)
(* step-index label, and no entry for a failed step.                       *)
C10_OneEntryPerSuccess ==
    pc = "done" =>
        LET rs == execution_result.step_results
            data == verification.data
        IN  /\ Cardinality(DOMAIN data) = Cardinality(Successes(rs))
            /\ \A i \in Successes(rs) :
                  /\ data_key(rs[i]) \in DOMAIN data
                  /\ data[data_key(rs[i])] = rs[i].data
            /\ \A i \in (1..Len(rs)) \ Successes(rs) : data_key(rs[i]) \notin DOMAIN data

(* the positions of the StepResults that did not succeed *)
Failures(results) == {i \in 1..Len(results) : results[i].status = "error"}

(* C11: issues holds exactly one string per StepResult with status         *)
(* "error", in the order of the step results, each reading                 *)
(* "Step {step_number} failed: {error_message}", and nothing for a         *)
(* successful step; issues is empty iff every step succeeded.              *)
C11_IssuePerFailedStep ==
    pc = "done" =>
        LET rs == execution_result.step_results
            issues == verification.issues
            rank(i) == Cardinality({j \in Failures(rs) : j <= i})
        IN  /\ Len(issues) = Cardinality(Failures(rs))
            /\ \A i \in Failures(rs) :
                  issues[rank(i)] =
                      "Step " \o ToString(rs[i].step_number) \o " failed: "
                          \o rs[i].error_message
            /\ (issues = << >>) <=> (Successes(rs) = 1..Len(rs))

(* a verified run of two failed steps with different messages *)
C11_Witness ==
    /\ pc = "done"
    /\ Len(execution_result.step_results) = 2
    /\ plan[1].tool = "Calculator" /\ plan[1].step_number = 2
    /\ plan[2].tool = "LLM" /\ met[2] = Raise("Connection error.")
    /\ verification.issues =
          <<"Step 2 failed: Unknown tool: Calculator", "Step 1 failed: Connection error.">>

(* the text holds nothing but whitespace (or nothing at all) *)
Blank(text) == \A i \in 1..Len(text) : CharAt(text, i) \in Whitespace

(* the step at position i is a news step of the search kind *)
NewsSearchStep(i) ==
    /\ plan[i].tool \in HoldNewsNotGithub
    /\ plan[i].action = "Fetch news"

(* the "query" parameter of the step at position i is missing, null, empty *)
(* or whitespace-only                                                      *)
BlankQuery(i) ==
    LET params == plan[i].parameters
    IN  \/ "query" \notin DOMAIN params
        \/ params["query"] = None
        \/ (params["query"].t = "str" /\ Blank(params["query"].v))

(* the "query" parameter of the step at position i is a non-blank text *)
TextQuery(i) ==
    LET params == plan[i].parameters
    IN  /\ "query" \in DOMAIN params
        /\ params["query"].t = "str"
        /\ ~Blank(params["query"].v)

(* C12: whenever get_tech_news is called for a news step, the query it     *)
(* observes is a non-empty, not whitespace-only text; a missing, empty or  *)
(* whitespace-only "query" parameter makes the call observe "technology",  *)
(* and a non-blank query is passed through unchanged.                      *)
C12_NoBlankNewsQuery ==
    /\ \A k \in 1..Len(calls) :
          calls[k].target = "get_tech_news" =>
              /\ calls[k].args.query.t = "str"
              /\ ~Blank(calls[k].args.query.v)
    /\ \A i \in 1..Len(step_results) :
          NewsSearchStep(i) =>
              /\ BlankQuery(i) =>
                    /\ Cardinality(CallsAt(i)) = 1
                    /\ \A k \in CallsAt(i) :
                          /\ calls[k].target = "get_tech_news"
                          /\ calls[k].args.query = Str("technology")
              /\ TextQuery(i) =>
                    /\ Cardinality(CallsAt(i)) = 1
                    /\ \A k \in CallsAt(i) :
                          /\ calls[k].target = "get_tech_news"
                          /\ calls[k].args.query = plan[i].parameters["query"]

(* a whitespace-only query sent as "technology", then a padded query sent *)
(* as it is                                                               *)
C12_Witness ==
    /\ Len(step_results) = 2
    /\ NewsSearchStep(1) /\ plan[1].parameters = QueryParams(Str(" \t"))
    /\ \E k \in CallsAt(1) : calls[k].args.query = Str("technology")
    /\ NewsSearchStep(2) /\ plan[2].parameters = QueryParams(Str(" ai "))
    /\ \E k \in CallsAt(2) : calls[k].args.query = Str(" ai ")

(* the model has answered the planner's call with a text *)
Answered == pc # "plan" /\ Len(met) = 1 /\ ~met[1].exc

(* the text that was handed to json.loads *)
HandedToParser ==
    calls[CHOOSE k \in 1..Len(calls) : calls[k].target = "json.loads"].args.text

InvokeCalls == {k \in 1..Len(calls) : calls[k].target = "invoke"}

(* the text is JSON for an ExecutionPlan *)
IsExecutionPlan(text) ==
    /\ ~json_loads(text).exc
    /\ json_loads(text).val.t = "dict"
    /\ execution_plan_valid(json_loads(text).val.v)

(* the run ended in the descriptive error for the text handed to the parser *)
DescriptiveFailure ==
    /\ pc = "fault"
    /\ fault.type = "ValueError"
    /\ startswith(fault.text, "Failed to parse LLM response as ExecutionPlan: ")
    /\ endswith(fault.text, "\nResponse: " \o prefix(HandedToParser, 200))
    /\ Len(HandedToParser) > 200 =>
          ~endswith(fault.text, "\nResponse: " \o prefix(HandedToParser, 201))

(* C13: for every answer of the model that is not valid JSON or does not   *)
(* satisfy ExecutionPlan, valid JSON whose top-level value is not an       *)
(* object included, generate_structured_output fails with the error that   *)
(* names the target shape and holds the first 200 characters of the        *)
(* offending text; the model is invoked exactly once and no plan comes     *)
(* back.                                                                   *)
C13_DescriptiveErrorOnBadAnswer ==
    (Answered /\ ~IsExecutionPlan(HandedToParser)) =>
        /\ DescriptiveFailure
        /\ Cardinality(InvokeCalls) = 1
        /\ plan = << >>

(* C14: for an answer that is a JSON document inside an opening fence,     *)
(* with any language tag or none, and a closing fence, with or without     *)
(* whitespace around it, the text handed to json.loads is exactly the      *)
(* document, so the call succeeds whenever the document is a valid         *)
(* ExecutionPlan; an answer without fence is handed over as it is apart    *)
(* from the trimming.                                                      *)
C14_FenceStripped ==
    Answered =>
        \A lead \in Margins, trail \in Margins, doc \in JsonDocs :
            /\ \A tag \in Tags :
                  met[1].val = Fenced(lead, tag, doc, trail) =>
                      /\ HandedToParser = doc
                      /\ doc \in ValidDocs => (pc = "execute" /\ fault = None)
            /\ met[1].val = lead \o doc \o trail =>
                  /\ HandedToParser = doc
                  /\ doc \in ValidDocs => (pc = "execute" /\ fault = None)

(* the fields of the records each adapter method returns *)
RepoFields ==
    {"name", "full_name", "description", "stars", "forks", "language", "url", "topics"}
ArticleFields ==
    {"title", "description", "source", "author", "url", "published_at", "content"}
HeadlineFields == {"title", "description", "source", "url", "published_at"}

FieldsOf(target) ==
    CASE target = "search_repositories" -> RepoFields
      [] target = "get_tech_news" -> ArticleFields
      [] target = "get_top_headlines" -> HeadlineFields

(* the HTTP call of the step at position i came back with result objects *)
AnsweredWithItems(i) ==
    /\ met[i] # RequestFailure
    /\ plan[i].tool \in HoldNewsNotGithub => status_ok(met[i].body)

(* C15: for any HTTP-successful answer every record an adapter method     *)
(* returns holds its full field set, a placeholder standing in for a      *)
(* source field that is absent or null; no exception leaves the adapter.  *)
C15_RecordsComplete ==
    \A i \in 1..Len(step_results) :
        (plan[i].tool \in AdapterTools /\ AnsweredWithItems(i)) =>
            /\ step_results[i].status = "success"
            /\ \A k \in CallsAt(i), key \in DOMAIN step_results[i].data :
                  LET records == step_results[i].data[key]
                  IN  \A n \in 1..Len(records) :
                          /\ DOMAIN records[n] = FieldsOf(calls[k].target)
                          /\ \A field \in DOMAIN records[n] : records[n][field] # None

StageCalls(stage) == {k \in 1..Len(calls) : calls[k].stage = stage}

(* create_plan raised *)
PlanFailed == pc = "fault" /\ ~Returned /\ StageCalls("planner") # {} /\ plan = << >>
                 /\ fault = Str("Failed to parse LLM response as ExecutionPlan")

(* the texts the summary call can return *)
SummaryTexts == {outcome.val : outcome \in {o \in LlmOutcomes : ~o.exc}}

(* the texts of the exceptions the summary call can raise *)
SummaryFailures == {Str(outcome.text) : outcome \in {o \in LlmOutcomes : o.exc}}

(* C16: the stages run in the order plan, execute, verify: the executor   *)
(* only after create_plan returned, the verifier only after execute_plan  *)
(* returned.  When create_plan fails no step is dispatched.  When the     *)
(* summary call of verify_and_format fails, the failure reaches the       *)
(* caller after that one call and no VerificationResult exists: there is  *)
(* none without a summary.                                                *)
C16_PlanAndSummaryFailuresFatal ==
    /\ \A k, l \in 1..Len(calls) :
          k < l => <<calls[k].stage, calls[l].stage>> \in
                      { <<"planner", "executor">>, <<"planner", "verifier">>,
                        <<"executor", "executor">>, <<"executor", "verifier">> }
    /\ (StageCalls("executor") # {} \/ step_results # << >> \/ Returned) =>
          Cardinality(StageCalls("planner")) = 1
    /\ StageCalls("verifier") # {} => (Returned /\ Len(step_results) = Len(plan))
    /\ PlanFailed =>
          /\ StageCalls("executor") = {} /\ StageCalls("verifier") = {}
          /\ step_results = << >> /\ met = << >>
          /\ execution_result = None /\ verification = None
    /\ (pc = "fault" /\ StageCalls("verifier") # {}) =>
          /\ Cardinality(StageCalls("verifier")) = 1
          /\ fault \in SummaryFailures
          /\ verification = None
    /\ verification # None =>
          /\ pc = "done"
          /\ Cardinality(StageCalls("verifier")) = 1
          /\ verification.summary \in SummaryTexts
    /\ pc = "done" => verification # None

(* both steps succeeded, then the summary call raised: no result *)
C16_Witness ==
    /\ pc = "fault"
    /\ Len(step_results) = 2
    /\ Successes(step_results) = {1, 2}
    /\ Cardinality(StageCalls("verifier")) = 1
    /\ fault = Str("Connection error.")
    /\ verification = None

(* the targets a dispatch to each kind of tool can call *)
TargetsOf(kind) ==
    CASE kind = "github" -> GithubTargets
      [] kind = "news" -> NewsTargets
      [] kind = "llm" -> {"generate_text"}
      [] OTHER -> {}

(* C17: execute_plan is one sequential pass in list order: at most one   *)
(* external call per step, a call for a step only when every earlier     *)
(* step has its StepResult, calls and results in the order of the list   *)
(* positions whatever the step_number values are, and every step of the  *)
(* list run, none skipped for its step_number.                           *)
C17_SequentialInListOrder ==
    /\ \A i \in 1..Len(plan) : Cardinality(CallsAt(i)) <= 1
    /\ \A k, l \in StageCalls("executor") :
          k < l => calls[k].position < calls[l].position
    /\ \A k \in StageCalls("executor") :
          /\ calls[k].position <= Len(step_results)
          /\ calls[k].target \in TargetsOf(route(plan[calls[k].position].tool))
    /\ Len(step_results) <= Len(plan)
    /\ \A i \in 1..Len(step_results) :
          /\ step_results[i].step_number = plan[i].step_number
          /\ step_results[i].action = plan[i].action
          /\ step_results[i].tool_used = plan[i].tool
    /\ LoopOver => Len(step_results) = Len(plan)

(* steps numbered 2 then 1: the repository call of the first was made  *)
(* before the language-model call of the second                        *)
C17_Witness ==
    /\ Len(step_results) = 2
    /\ plan[1].step_number = 2 /\ plan[2].step_number = 1
    /\ Len(calls) = 3
    /\ calls[2].position = 1 /\ calls[2].target = "search_repositories"
    /\ calls[3].position = 2 /\ calls[3].target = "generate_text"

(* the hardcoded default of each named parameter of each target *)
DefaultOf(target, name) ==
    CASE target = "search_repositories" /\ name = "query" -> Str("language:python")
      [] target = "search_repositories" /\ name = "sort" -> Str("stars")
      [] target = "get_trending_repos" /\ name = "language" -> Str("python")
      [] target = "get_tech_news" /\ name = "query" -> Str("technology")
      [] target = "get_top_headlines" /\ name = "category" -> Str("technology")
      [] target = "get_top_headlines" /\ name = "country" -> Str("us")
      [] target = "generate_text" /\ name = "prompt" -> Str("Summarize the data")
      [] name = "limit" -> PyInt(5)

(* C18: whatever the target and the action text, each named parameter of *)
(* the call comes from the step's parameters when the key is there and   *)
(* is the hardcoded default only when the key is missing (a blank news   *)
(* query counting as missing); for a repository step, whether its action *)
(* holds "trending", "search" or neither, a supplied query, sort or      *)
(* limit is what the repository adapter receives.                        *)
C18_ParametersReachAdapter ==
    \A k \in StageCalls("executor") :
        LET i == calls[k].position
            params == plan[i].parameters
            args == calls[k].args
            target == calls[k].target
        IN  /\ \A name \in DOMAIN args :
                  IF name \in DOMAIN params /\ ~(target = "get_tech_news" /\ BlankQuery(i))
                  THEN args[name] = params[name]
                  ELSE args[name] = DefaultOf(target, name)
            /\ target = "search_repositories" =>
                  \A name \in {"query", "sort", "limit"} \cap DOMAIN params :
                      args[name] = params[name]

(* C19 as stated: for every ExecutionResult, the one of a plan with no    *)
(* step included, overall_status is "failure" iff no StepResult           *)
(* succeeded, "success" iff every StepResult succeeded, "partial_failure" *)
(* iff some but not all did, and exactly one of the three applies.        *)
C19_StatusInvariantEveryPlan ==
    Returned =>
        LET rs == execution_result.step_results
            status == execution_result.overall_status
        IN  /\ status \in {"success", "partial_failure", "failure"}
            /\ (status = "failure") <=> (Successes(rs) = {})
            /\ (status = "success") <=> (Successes(rs) = 1..Len(rs))
            /\ (status = "partial_failure") <=>
                  (Successes(rs) # {} /\ Successes(rs) # 1..Len(rs))

(* C19 amended: the three equivalences hold for every ExecutionResult of  *)
(* a plan with at least one step; for a plan with no step execute_plan    *)
(* returns no StepResult and overall_status "success"; overall_status is  *)
(* always exactly one of the three values.                                *)
C19_StatusInvariantEmptySucceeds ==
    Returned =>
        LET rs == execution_result.step_results
            status == execution_result.overall_status
        IN  /\ status \in {"success", "partial_failure", "failure"}
            /\ Len(rs) = Len(plan)
            /\ Len(rs) = 0 => status = "success"
            /\ Len(rs) >= 1 =>
                  /\ (status = "failure") <=> (Successes(rs) = {})
                  /\ (status = "success") <=> (Successes(rs) = 1..Len(rs))
                  /\ (status = "partial_failure") <=>
                        (Successes(rs) # {} /\ Successes(rs) # 1..Len(rs))

(* execute_plan returned for a plan with no step *)
C19_Witness ==
    /\ Returned
    /\ plan = << >>
    /\ execution_result.step_results = << >>
    /\ execution_result.overall_status = "success"

(* execute_plan returned the result of a plan with no step *)
EmptyResult == Returned /\ execution_result.step_results = << >>

(* C20: verify_and_format on an ExecutionResult without step results     *)
(* ends in a division by zero: no VerificationResult is produced, and as *)
(* the division comes before the summary call, no language-model request *)
(* is made for it.                                                       *)
C20_EmptyResultFaultsBeforeSummary ==
    EmptyResult =>
        /\ pc \in {"verify", "fault"}
        /\ verification = None
        /\ StageCalls("verifier") = {}
        /\ \A k \in 1..Len(calls) : calls[k].target # "generate_text"
        /\ pc = "fault" => fault = Str("division by zero")
        /\ \A outcome \in LlmOutcomes :
              verify_and_format(user_task, execution_result, outcome) =
                  Done(Raise("division by zero"), << >>)

(* the run of an empty plan ended in the division by zero *)
C20_Witness ==
    /\ EmptyResult
    /\ plan = << >>
    /\ execution_result.overall_status = "success"
    /\ pc = "fault"
    /\ fault = Str("division by zero")
    /\ verification = None

(* execute_plan returned for a plan of at least one step, every step      *)
(* routed to an adapter, every adapter call made and failed at transport  *)
(* level                                                                  *)
EveryAdapterCallFailed ==
    /\ Returned
    /\ Len(plan) >= 1
    /\ Len(met) = Len(plan)
    /\ \A i \in 1..Len(plan) :
          /\ plan[i].tool \in AdapterTools
          /\ CallsAt(i) # {}
          /\ met[i] = RequestFailure

(* the positions of the StepResults whose payload is the error record *)
Tagged(results) == {i \in 1..Len(results) : ErrorTagged(results[i])}

(* C21 as stated: when every step goes to an adapter and every adapter    *)
(* call fails at transport level, the run ends with overall_status        *)
(* "success", is_complete true, confidence_score 1 and no issue.          *)
C21_RunEndsComplete ==
    (EveryAdapterCallFailed /\ pc \in {"done", "fault"}) =>
        /\ execution_result.overall_status = "success"
        /\ pc = "done"
        /\ verification # None
        /\ verification.is_complete
        /\ verification.confidence_score = [num |-> 1, den |-> 1]
        /\ verification.issues = << >>

(* C21 amended: in such a run every payload is the error record and       *)
(* overall_status is "success"; if the summary call returns, the          *)
(* VerificationResult has is_complete true, confidence_score 1 and no     *)
(* issue, and if it raises, the run ends in that fault without a          *)
(* VerificationResult.  In any verified run a StepResult holding the      *)
(* error record counts as a success in confidence_score and has no entry  *)
(* in issues.                                                             *)
C21_AdapterErrorsInvisible ==
    /\ EveryAdapterCallFailed =>
          /\ Tagged(step_results) = 1..Len(plan)
          /\ execution_result.overall_status = "success"
          /\ pc = "done" =>
                /\ verification.is_complete
                /\ verification.confidence_score = [num |-> 1, den |-> 1]
                /\ verification.issues = << >>
          /\ pc = "fault" =>
                /\ verification = None
                /\ fault \in SummaryFailures
    /\ pc = "done" =>
          LET rs == execution_result.step_results
              c == verification.confidence_score
          IN  /\ Tagged(rs) \subseteq Successes(rs)
              /\ c.num * Len(rs) = Cardinality(Successes(rs)) * c.den
              /\ Len(verification.issues) = Len(rs) - Cardinality(Successes(rs))
              /\ Len(verification.issues) <= Len(rs) - Cardinality(Tagged(rs))

(* a repository step and a news step, both failed at transport level, *)
(* verified as complete with confidence 1 and no issue                *)
C21_Witness ==
    /\ pc = "done"
    /\ EveryAdapterCallFailed
    /\ Len(plan) = 2
    /\ plan[1].tool = "GitHubTool" /\ plan[2].tool = "NewsTool"
    /\ Tagged(step_results) = {1, 2}
    /\ verification.is_complete
    /\ verification.confidence_score = [num |-> 1, den |-> 1]
    /\ verification.issues = << >>

====
